---- MODULE Spec2Model ----
(***************************************************************************)
(* gyxy: an intercepting HTTP/HTTPS forward proxy.                         *)
(*                                                                         *)
(* The repository holds two programs.  The proxy package (Proxy.Start,     *)
(* Proxy.handleConnection, Proxy.handleHTTP, Proxy.handleHTTPS, ...) is     *)
(* the MITM proxy with the blocklist; src/main.go is a stand-alone proxy   *)
(* with its own handleConnection, handleHTTP and handleHTTPS (a raw TCP    *)
(* tunnel).  The variable impl says which program runs.                    *)
(*                                                                         *)
(* Byte strings are sequences of one-character strings, so that the        *)
(* parsers work on the bytes as the Go code does.                          *)
(***************************************************************************)
EXTENDS Naturals, Integers, Sequences, FiniteSets, TLC

(***************************************************************************)
(* Bounds of the model.                                                    *)
(***************************************************************************)
\* Connections the accept loop takes in one behaviour.
MaxAccepts == 2

\* Stand-in for the Go runtime's limit on make([]byte, n): a larger n
\* panics ("makeslice: len out of range").  Scaled down with the
\* Content-Length values of the response catalogue.
MaxAlloc == 8

(***************************************************************************)
(* Bytes and the strings package.                                          *)
(***************************************************************************)
CR == "\r"
LF == "\n"
CRLF == <<CR, LF>>
SP == " "
COLON == ":"

\* unicode.IsSpace on the bytes that occur
IsSpace(c) == c \in {" ", "\t", "\r", "\n"}

Upper == <<"A", "B", "C", "D", "E", "F", "G", "H", "I", "J", "K", "L", "M",
           "N", "O", "P", "Q", "R", "S", "T", "U", "V", "W", "X", "Y", "Z">>
Lower == <<"a", "b", "c", "d", "e", "f", "g", "h", "i", "j", "k", "l", "m",
           "n", "o", "p", "q", "r", "s", "t", "u", "v", "w", "x", "y", "z">>

\* simple case folding of one byte
Fold(c) ==
    IF \E i \in 1..Len(Upper) : Upper[i] = c
    THEN Lower[CHOOSE i \in 1..Len(Upper) : Upper[i] = c]
    ELSE c

\* strings.EqualFold
EqualFold(s, t) ==
    /\ Len(s) = Len(t)
    /\ \A i \in 1..Len(s) : Fold(s[i]) = Fold(t[i])

\* strings.IndexByte, 1-based; 0 when c does not occur
IndexByte(s, c) ==
    IF \E i \in 1..Len(s) : s[i] = c
    THEN CHOOSE i \in 1..Len(s) : s[i] = c /\ \A j \in 1..(i - 1) : s[j] # c
    ELSE 0

\* strings.Contains(s, ":") for a one-byte separator
ContainsByte(s, c) == IndexByte(s, c) # 0

RECURSIVE TrimLeft(_)
TrimLeft(s) ==
    IF s # <<>> /\ IsSpace(Head(s)) THEN TrimLeft(Tail(s)) ELSE s

RECURSIVE TrimRight(_)
TrimRight(s) ==
    IF s # <<>> /\ IsSpace(s[Len(s)])
    THEN TrimRight(SubSeq(s, 1, Len(s) - 1))
    ELSE s

\* strings.TrimSpace
TrimSpace(s) == TrimRight(TrimLeft(s))

\* strings.Split(s, sep) for a one-byte sep: always at least one element
RECURSIVE Split(_, _)
Split(s, c) ==
    LET i == IndexByte(s, c)
    IN  IF i = 0
        THEN <<s>>
        ELSE <<SubSeq(s, 1, i - 1)>> \o Split(SubSeq(s, i + 1, Len(s)), c)

\* strings.SplitN(s, sep, 2): split on the first sep only
SplitN2(s, c) ==
    LET i == IndexByte(s, c)
    IN  IF i = 0
        THEN <<s>>
        ELSE <<SubSeq(s, 1, i - 1), SubSeq(s, i + 1, Len(s))>>

\* strings.Split(s, "\r\n")[0]: the text before the first CRLF
RECURSIVE BeforeCRLF(_)
BeforeCRLF(s) ==
    IF Len(s) < 2
    THEN s
    ELSE IF s[1] = CR /\ s[2] = LF
         THEN <<>>
         ELSE <<Head(s)>> \o BeforeCRLF(Tail(s))

Digits == <<"0", "1", "2", "3", "4", "5", "6", "7", "8", "9">>
IsDigit(c) == \E i \in 1..Len(Digits) : Digits[i] = c
DigitVal(c) == (CHOOSE i \in 1..Len(Digits) : Digits[i] = c) - 1

RECURSIVE DecimalValue(_, _)
DecimalValue(s, acc) ==
    IF s = <<>> THEN acc
    ELSE DecimalValue(Tail(s), acc * Len(Digits) + DigitVal(Head(s)))

\* strconv.Atoi with the error dropped (length, _ := strconv.Atoi(cl)):
\* a syntax error leaves 0
Atoi(s) ==
    LET neg == s # <<>> /\ Head(s) = "-"
        body == IF s # <<>> /\ Head(s) \in {"+", "-"} THEN Tail(s) ELSE s
    IN  IF body = <<>> \/ \E i \in 1..Len(body) : ~IsDigit(body[i])
        THEN 0
        ELSE IF neg THEN 0 - DecimalValue(body, 0) ELSE DecimalValue(body, 0)

(***************************************************************************)
(* Literals of the code.                                                   *)
(***************************************************************************)
\* case "Host":
KeyHost ==
    <<"H", "o", "s", "t">>

\* resp.Headers["Content-Length"]
KeyContentLength ==
    <<"C", "o", "n", "t", "e", "n", "t", "-", "L", "e", "n", "g", "t", "h">>

\* string(peek) == "CONNECT"
WordCONNECT ==
    <<"C", "O", "N", "N", "E", "C", "T">>

\* HTTPRequest{Port: "80"}
DefaultHTTPPort ==
    <<"8", "0">>

\* target += ":443"
DefaultTLSPort ==
    <<":", "4", "4", "3">>

\* reader.Peek(7)
PeekLen == Len(WordCONNECT)

(***************************************************************************)
(* What clients, origins and the operator supply: small catalogues.        *)
(***************************************************************************)
\* GET / HTTP/1.1\r\nHost: ads.t\r\n\r\n
ReqGetBlocked ==
    <<"G", "E", "T", " ", "/", " ", "H", "T", "T", "P", "/", "1", ".", "1",
    "\r", "\n", "H", "o", "s", "t", ":", " ", "a", "d", "s", ".", "t", "\r",
    "\n", "\r", "\n">>

\* GET / HTTP/1.1\r\nHost: ADS.T:81\r\n\r\n
ReqGetUpper ==
    <<"G", "E", "T", " ", "/", " ", "H", "T", "T", "P", "/", "1", ".", "1",
    "\r", "\n", "H", "o", "s", "t", ":", " ", "A", "D", "S", ".", "T", ":",
    "8", "1", "\r", "\n", "\r", "\n">>

\* GET / HTTP/1.1\r\nHost: ok.t\r\n\r\n
ReqGetOther ==
    <<"G", "E", "T", " ", "/", " ", "H", "T", "T", "P", "/", "1", ".", "1",
    "\r", "\n", "H", "o", "s", "t", ":", " ", "o", "k", ".", "t", "\r", "\n",
    "\r", "\n">>

\* GET / HTTP/1.1\r\nhost: ads.t\r\n\r\n
ReqGetLowerName ==
    <<"G", "E", "T", " ", "/", " ", "H", "T", "T", "P", "/", "1", ".", "1",
    "\r", "\n", "h", "o", "s", "t", ":", " ", "a", "d", "s", ".", "t", "\r",
    "\n", "\r", "\n">>

\* GET / HTTP/1.1\r\nHost: ok.t\r\n
ReqGetNoBlank ==
    <<"G", "E", "T", " ", "/", " ", "H", "T", "T", "P", "/", "1", ".", "1",
    "\r", "\n", "H", "o", "s", "t", ":", " ", "o", "k", ".", "t", "\r", "\n">>

\* GET / HTTP/1.1\r\nHost: ok.t     (the last line is not terminated)
ReqGetCut ==
    <<"G", "E", "T", " ", "/", " ", "H", "T", "T", "P", "/", "1", ".", "1",
    "\r", "\n", "H", "o", "s", "t", ":", " ", "o", "k", ".", "t">>

\* GET /\r\n\r\n
ReqMalformed ==
    <<"G", "E", "T", " ", "/", "\r", "\n", "\r", "\n">>

\* GET / HT
ReqLineCut ==
    <<"G", "E", "T", " ", "/", " ", "H", "T">>

\* GET
ReqShort ==
    <<"G", "E", "T">>

\* CONNECT ads.t:443 HTTP/1.1\r\n\r\n
ConnBlocked ==
    <<"C", "O", "N", "N", "E", "C", "T", " ", "a", "d", "s", ".", "t", ":",
    "4", "4", "3", " ", "H", "T", "T", "P", "/", "1", ".", "1", "\r", "\n",
    "\r", "\n">>

\* CONNECT ADS.T HTTP/1.1\r\n\r\n
ConnUpper ==
    <<"C", "O", "N", "N", "E", "C", "T", " ", "A", "D", "S", ".", "T", " ",
    "H", "T", "T", "P", "/", "1", ".", "1", "\r", "\n", "\r", "\n">>

\* CONNECT ok.t:443 HTTP/1.1\r\nHost: ok.t:443\r\n\r\n
ConnOther ==
    <<"C", "O", "N", "N", "E", "C", "T", " ", "o", "k", ".", "t", ":", "4",
    "4", "3", " ", "H", "T", "T", "P", "/", "1", ".", "1", "\r", "\n", "H",
    "o", "s", "t", ":", " ", "o", "k", ".", "t", ":", "4", "4", "3", "\r",
    "\n", "\r", "\n">>

\* CONNECT ok.t:443 HTTP/1.1\r\n\r\n and the first byte of the TLS
\* handshake, sent without waiting for the 200
ConnEarlyData ==
    <<"C", "O", "N", "N", "E", "C", "T", " ", "o", "k", ".", "t", ":", "4",
    "4", "3", " ", "H", "T", "T", "P", "/", "1", ".", "1", "\r", "\n",
    "\r", "\n", "z">>

\* CONNECT\r\n\r\n
ConnMalformed ==
    <<"C", "O", "N", "N", "E", "C", "T", "\r", "\n", "\r", "\n">>

\* CONNECT ok.t:443 HTTP/1.1\r\n
ConnNoBlank ==
    <<"C", "O", "N", "N", "E", "C", "T", " ", "o", "k", ".", "t", ":", "4",
    "4", "3", " ", "H", "T", "T", "P", "/", "1", ".", "1", "\r", "\n">>

ClientStreams ==
    {ReqGetBlocked, ReqGetUpper, ReqGetOther, ReqGetLowerName, ReqGetNoBlank,
     ReqGetCut, ReqMalformed, ReqLineCut, ReqShort, ConnBlocked, ConnUpper,
     ConnOther, ConnEarlyData, ConnMalformed, ConnNoBlank}

\* HTTP/1.1 200 OK\r\nContent-Length: 2\r\n\r\nhi
RespOk ==
    <<"H", "T", "T", "P", "/", "1", ".", "1", " ", "2", "0", "0", " ", "O",
    "K", "\r", "\n", "C", "o", "n", "t", "e", "n", "t", "-", "L", "e", "n",
    "g", "t", "h", ":", " ", "2", "\r", "\n", "\r", "\n", "h", "i">>

\* HTTP/1.1 204 No\r\n\r\n
RespNoLength ==
    <<"H", "T", "T", "P", "/", "1", ".", "1", " ", "2", "0", "4", " ", "N",
    "o", "\r", "\n", "\r", "\n">>

\* HTTP/1.1 200 OK\r\nContent-Length: 2\r\n\r\nh
RespShortBody ==
    <<"H", "T", "T", "P", "/", "1", ".", "1", " ", "2", "0", "0", " ", "O",
    "K", "\r", "\n", "C", "o", "n", "t", "e", "n", "t", "-", "L", "e", "n",
    "g", "t", "h", ":", " ", "2", "\r", "\n", "\r", "\n", "h">>

\* HTTP/1.1 200 OK\r\nContent-Length: 99\r\n\r\n
RespHuge ==
    <<"H", "T", "T", "P", "/", "1", ".", "1", " ", "2", "0", "0", " ", "O",
    "K", "\r", "\n", "C", "o", "n", "t", "e", "n", "t", "-", "L", "e", "n",
    "g", "t", "h", ":", " ", "9", "9", "\r", "\n", "\r", "\n">>

\* HTTP/1.1\r\n\r\n
RespMalformed ==
    <<"H", "T", "T", "P", "/", "1", ".", "1", "\r", "\n", "\r", "\n">>

\* HTTP/1.1 200 OK\r\ncontent-length: 2\r\n\r\nhi
RespLowerName ==
    <<"H", "T", "T", "P", "/", "1", ".", "1", " ", "2", "0", "0", " ", "O",
    "K", "\r", "\n", "c", "o", "n", "t", "e", "n", "t", "-", "l", "e", "n",
    "g", "t", "h", ":", " ", "2", "\r", "\n", "\r", "\n", "h", "i">>

\* HTTP/1.1 200 OK\r\ncontent-length: 2\r\n\r\nh
RespLowerShort ==
    <<"H", "T", "T", "P", "/", "1", ".", "1", " ", "2", "0", "0", " ", "O",
    "K", "\r", "\n", "c", "o", "n", "t", "e", "n", "t", "-", "l", "e", "n",
    "g", "t", "h", ":", " ", "2", "\r", "\n", "\r", "\n", "h">>

OriginResponses ==
    {RespOk, RespNoLength, RespShortBody, RespHuge, RespMalformed,
     RespLowerName, RespLowerShort}

\* ads.t
HostAds ==
    <<"a", "d", "s", ".", "t">>

\*  ADS.T 
LineAdsPadded ==
    <<" ", "A", "D", "S", ".", "T", " ">>

\* x.t
LineOther ==
    <<"x", ".", "t">>

(***************************************************************************)
(* The blocklist file "blocked".  ok: os.Open succeeds; lines: the lines   *)
(* the scanner yields; scanErr: scanner.Err() is non-nil after them.        *)
(***************************************************************************)
BlockedFiles ==
    { [ok |-> FALSE, lines |-> <<>>, scanErr |-> FALSE],
      [ok |-> TRUE, lines |-> <<HostAds>>, scanErr |-> FALSE],
      [ok |-> TRUE, lines |-> <<<<>>, LineOther, LineAdsPadded>>, scanErr |-> FALSE],
      [ok |-> TRUE, lines |-> <<LineOther>>, scanErr |-> TRUE] }

(***************************************************************************)
(* Reading from a socket.  A stream is the bytes the peer has sent and     *)
(* will send (buf) and what the peer does after them (end): "eof", it      *)
(* closes, or "silent", it sends nothing more and keeps the socket open.   *)
(* A read that finds no byte returns io.EOF after a close; on a silent     *)
(* peer it returns a timeout error when a deadline is armed on the socket  *)
(* and never returns ("hang") when none is.                                *)
(***************************************************************************)
StreamEnds == {"eof", "silent"}

EndErr(end, armed) ==
    IF end = "eof" THEN "EOF" ELSE IF armed THEN "timeout" ELSE "hang"

\* bufio.Reader.ReadString('\n'): the line with its delimiter, or what is
\* left and the error
ReadString(buf, end, armed) ==
    LET i == IndexByte(buf, LF)
    IN  IF i # 0
        THEN [line |-> SubSeq(buf, 1, i), rest |-> SubSeq(buf, i + 1, Len(buf)),
              err |-> "nil"]
        ELSE [line |-> buf, rest |-> <<>>, err |-> EndErr(end, armed)]

\* bufio.Reader.Peek(n)
Peek(buf, end, armed, n) ==
    IF Len(buf) >= n
    THEN [bytes |-> SubSeq(buf, 1, n), err |-> "nil"]
    ELSE [bytes |-> buf, err |-> EndErr(end, armed)]

(***************************************************************************)
(* proxy/http.go: parseRequest (ParseRawHTTP of src/main.go is the same    *)
(* code).                                                                  *)
(***************************************************************************)
NoRequest ==
    [Method |-> <<>>, Path |-> <<>>, Protocol |-> <<>>, Host |-> <<>>,
     Port |-> DefaultHTTPPort, Raw |-> <<>>]

\* the switch on the header key: only "Host" changes the routing fields
SetHeader(req, key, value) ==
    IF key = KeyHost
    THEN LET hostParts == Split(value, COLON)
         IN  [req EXCEPT !.Host = hostParts[1],
                         !.Port = IF Len(hostParts) > 1 THEN hostParts[2] ELSE @]
    ELSE req

\* the header loop of parseRequest
RECURSIVE RequestHeaders(_, _, _, _)
RequestHeaders(req, buf, end, armed) ==
    LET r == ReadString(buf, end, armed)
    IN  IF r.err # "nil"
        THEN IF r.err = "EOF"
             THEN [err |-> "nil", req |-> req, rest |-> r.rest]
             ELSE [err |-> r.err, req |-> NoRequest, rest |-> r.rest]
        ELSE LET req1 == [req EXCEPT !.Raw = @ \o r.line]
                 parts == SplitN2(r.line, COLON)
             IN  IF r.line = CRLF
                 THEN [err |-> "nil", req |-> req1, rest |-> r.rest]
                 ELSE IF Len(parts) # 2
                      THEN RequestHeaders(req1, r.rest, end, armed)
                      ELSE RequestHeaders(
                               SetHeader(req1, TrimSpace(parts[1]), TrimSpace(parts[2])),
                               r.rest, end, armed)

parseRequest(buf, end, armed) ==
    LET first == ReadString(buf, end, armed)
        parts == Split(TrimSpace(first.line), SP)
    IN  IF first.err # "nil"
        THEN [err |-> first.err, req |-> NoRequest, rest |-> first.rest]
        ELSE IF Len(parts) < 3
             THEN [err |-> "malformed request line", req |-> NoRequest,
                   rest |-> first.rest]
             ELSE RequestHeaders(
                      [NoRequest EXCEPT !.Method = parts[1], !.Path = parts[2],
                                        !.Protocol = parts[3], !.Raw = first.line],
                      first.rest, end, armed)

\* parseRequest of what a client of the catalogue sends
requestOf ==
    [b \in ClientStreams, e \in StreamEnds, a \in BOOLEAN |->
        parseRequest(b, e, a)]

(***************************************************************************)
(* proxy: parseResponse (parseHTTPResponse of src/main.go reads the same   *)
(* bytes; it differs only in logging).                                     *)
(***************************************************************************)
\* resp.Headers[key] = value
MapPut(h, key, value) ==
    [k \in (DOMAIN h) \cup {key} |-> IF k = key THEN value ELSE h[k]]

EmptyMap == [k \in {} |-> <<>>]

\* the body part: Content-Length looked up under this exact key
ResponseBody(headers, rawResp, buf, end, armed) ==
    IF KeyContentLength \in DOMAIN headers
    THEN LET length == Atoi(headers[KeyContentLength])
         IN  IF length > 0
             THEN IF length > MaxAlloc
                  THEN [err |-> "panic", raw |-> <<>>]
                  ELSE IF Len(buf) >= length
                       THEN [err |-> "nil", raw |-> rawResp \o SubSeq(buf, 1, length)]
                       ELSE [err |-> EndErr(end, armed), raw |-> <<>>]
             ELSE [err |-> "nil", raw |-> rawResp]
    ELSE [err |-> "nil", raw |-> rawResp]

\* the header loop of parseResponse
RECURSIVE ResponseHeaders(_, _, _, _, _)
ResponseHeaders(headers, rawResp, buf, end, armed) ==
    LET r == ReadString(buf, end, armed)
    IN  IF r.err # "nil"
        THEN IF r.err = "EOF"
             THEN ResponseBody(headers, rawResp, r.rest, end, armed)
             ELSE [err |-> r.err, raw |-> <<>>]
        ELSE LET parts == SplitN2(r.line, COLON)
             IN  IF r.line = CRLF
                 THEN ResponseBody(headers, rawResp \o r.line, r.rest, end, armed)
                 ELSE IF Len(parts) = 2
                      THEN ResponseHeaders(
                               MapPut(headers, TrimSpace(parts[1]), TrimSpace(parts[2])),
                               rawResp \o r.line, r.rest, end, armed)
                      ELSE ResponseHeaders(headers, rawResp \o r.line, r.rest, end, armed)

\* err: "nil", an error, "hang" (a read that never returns) or "panic"
parseResponse(buf, end, armed) ==
    LET status == ReadString(buf, end, armed)
        parts == Split(TrimSpace(status.line), SP)
    IN  IF status.err # "nil"
        THEN [err |-> status.err, raw |-> <<>>]
        ELSE IF Len(parts) < 2
             THEN [err |-> "malformed status line", raw |-> <<>>]
             ELSE ResponseHeaders(EmptyMap, status.line, status.rest, end, armed)

\* parseResponse of what an origin of the catalogue sends
responseOf ==
    [b \in OriginResponses, e \in StreamEnds, a \in BOOLEAN |->
        parseResponse(b, e, a)]

(***************************************************************************)
(* proxy: the CONNECT request.                                             *)
(***************************************************************************)
\* the read loop of readConnectRequest: every line up to the blank one
RECURSIVE ConnectLines(_, _, _, _)
ConnectLines(request, buf, end, armed) ==
    LET r == ReadString(buf, end, armed)
    IN  IF r.err # "nil"
        THEN [err |-> r.err, request |-> <<>>, rest |-> r.rest]
        ELSE IF r.line = CRLF
             THEN [err |-> "nil", request |-> request \o r.line, rest |-> r.rest]
             ELSE ConnectLines(request \o r.line, r.rest, end, armed)

\* readConnectRequest without the check of the number of parts
readConnectRequestUnchecked(buf, end, armed) ==
    LET rd == ConnectLines(<<>>, buf, end, armed)
        parts == Split(TrimSpace(BeforeCRLF(rd.request)), SP)
    IN  IF rd.err # "nil"
        THEN [err |-> rd.err, target |-> <<>>, rest |-> rd.rest]
        ELSE [err |-> "nil",
              target |-> IF Len(parts) >= 2 THEN parts[2] ELSE <<>>,
              rest |-> rd.rest]

readConnectRequest(buf, end, armed) ==
    LET rd == ConnectLines(<<>>, buf, end, armed)
        parts == Split(TrimSpace(BeforeCRLF(rd.request)), SP)
    IN  IF rd.err # "nil"
        THEN [err |-> rd.err, target |-> <<>>, rest |-> rd.rest]
        ELSE IF Len(parts) < 3
             THEN [err |-> "malformed CONNECT request", target |-> <<>>,
                   rest |-> rd.rest]
             ELSE [err |-> "nil", target |-> parts[2], rest |-> rd.rest]

processConnectRequest(buf, end, armed) ==
    LET rd == readConnectRequest(buf, end, armed)
        hostPort == IF ContainsByte(rd.target, COLON)
                    THEN rd.target
                    ELSE rd.target \o DefaultTLSPort
    IN  IF rd.err # "nil"
        THEN [err |-> rd.err, target |-> <<>>, domain |-> <<>>, rest |-> rd.rest]
        ELSE [err |-> "nil", target |-> hostPort,
              domain |-> Split(hostPort, COLON)[1], rest |-> rd.rest]

\* processConnectRequest of what a client of the catalogue sends
connectOf ==
    [b \in ClientStreams, e \in StreamEnds, a \in BOOLEAN |->
        processConnectRequest(b, e, a)]

(***************************************************************************)
(* proxy: the blocklist.                                                   *)
(***************************************************************************)
\* a comparison of the line with the host that minds letter case
LineMatchesExactCase(domain, line) ==
    /\ TrimSpace(line) # <<>>
    /\ domain = TrimSpace(line)

\* the scan loop of checkHost: some non-empty trimmed line equals domain
LineMatches(domain, line) ==
    /\ TrimSpace(line) # <<>>
    /\ EqualFold(domain, TrimSpace(line))

\* checkHost returns ok = false on a match: ok means "not on the list"
checkHost(domain, file) ==
    IF ~file.ok
    THEN [ok |-> FALSE, err |-> TRUE]
    ELSE IF \E i \in 1..Len(file.lines) : LineMatches(domain, file.lines[i])
         THEN [ok |-> FALSE, err |-> FALSE]
         ELSE IF file.scanErr
              THEN [ok |-> FALSE, err |-> TRUE]
              ELSE [ok |-> TRUE, err |-> FALSE]

\* a checkAndBlockHost that treats a failed lookup as a match
shouldBlockFailClosed(domain, file) ==
    LET r == checkHost(domain, file)
    IN  IF r.err THEN TRUE ELSE ~r.ok

\* checkAndBlockHost: TRUE when the 403 is sent
shouldBlock(domain, file) ==
    LET r == checkHost(domain, file)
    IN  IF r.err THEN FALSE ELSE ~r.ok

(***************************************************************************)
(* State.                                                                  *)
(***************************************************************************)
VARIABLES
    impl,       \* "proxy": the proxy package; "main": src/main.go
    blocked,    \* the blocklist file
    process,    \* "running", or "crashed" after an unrecovered panic
    lastAccept, \* what the accept loop's last Accept returned
    accepted,   \* connections accepted so far
    keys,       \* RSA keys generated so far by the process
    adsLookups, \* what each lookup of ads.t so far came to, in order
    pc,         \* where the connection task is
    cin,        \* client bytes still unread in the buffered reader
    cend,       \* what the client does after its bytes
    cdeadline,  \* a deadline is armed on the client socket
    cstate,     \* the client socket: "open" or "closed" (by the proxy)
    ccloses,    \* Close calls on the client socket
    cwrites,    \* writes issued on the client socket, in order
    host,       \* the host the request names (req.Host, or the CONNECT domain)
    target,     \* the address to dial: host:port
    raw,        \* req.Raw
    looked,     \* the blocklist was looked up for this connection
    dial,       \* the origin dial: "none", "ok", "failed", "hang"
    sstate,     \* the origin socket: "none", "open" or "closed" (by the proxy)
    scloses,    \* Close calls on the origin socket
    sdeadline,  \* a deadline is armed on the origin socket
    swrites,    \* bytes written to the origin
    osend,      \* bytes the origin has still to send
    oflight,    \* bytes the origin has sent that the proxy has not read
    oend,       \* what the origin does after its bytes
    hs,         \* the TLS handshake toward the client: "none", "ok", "failed"
    rootCA,     \* the key pair LoadX509KeyPair returned for this connection
    leaf,       \* fakeCert, the certificate generateCertificate returned
    mints,      \* generateCertificate calls for this connection
    ctun,       \* tunnel bytes the client has still to send
    cflight,    \* tunnel bytes the client has sent that the proxy has not read
    c2s,        \* the client-to-origin copy task: "off", "copy", "done"
    s2c,        \* the origin-to-client copy task: "off", "hdr", "body", "done"
    sbuf,       \* origin bytes read into serverReader, not yet written
    ending,     \* why each copy task ended
    halfclosed, \* sockets whose write side was shut (CloseWrite)
    delivered   \* tunnel bytes written to the client

connVars ==
    <<pc, cin, cend, cdeadline, cstate, ccloses, cwrites, host, target, raw,
      looked, dial, sstate, scloses, sdeadline, swrites, osend, oflight, oend,
      hs, rootCA, leaf, mints, ctun, cflight, c2s, s2c, sbuf, ending, halfclosed, delivered>>

procVars ==
    <<impl, blocked, process, lastAccept, accepted, keys, adsLookups>>

vars == <<procVars, connVars>>

Impls == {"proxy", "main"}

\* tunnel traffic after the CONNECT request, as the segments it arrives in
ClientTunnelData == {<<>>, << <<"q">>, <<"r">> >>}
OriginTunnelData ==
    { << <<"h", CR, LF, CR, LF>>, <<"b">> >>,
      << <<"h", CR, LF, CR>>, <<LF, "b">> >>,
      << <<"x">>, <<"y">> >> }

\* the responses the code writes itself
Msg403(domain) == [kind |-> "403", domain |-> domain]
Msg200 == [kind |-> "200"]
Msg502 == [kind |-> "502"]
MsgRaw(bytes) == [kind |-> "raw", bytes |-> bytes]

\* client.Write(m): the write is issued; ok says whether it succeeded
ClientWrite(m, ok) == cwrites' = Append(cwrites, [msg |-> m, ok |-> ok])

Wrote(kind) == \E i \in 1..Len(cwrites) : cwrites[i].msg.kind = kind
WroteOk(kind) ==
    \E i \in 1..Len(cwrites) : cwrites[i].msg.kind = kind /\ cwrites[i].ok

\* client.Close()
CloseClient == cstate' = "closed" /\ ccloses' = ccloses + 1

\* server.Close()
CloseServer == sstate' = "closed" /\ scloses' = scloses + 1

\* "*."
WildcardLabel ==
    <<"*", ".">>

\* the key pairs certs/rootCA.pem and certs/rootCA.key can hold when a
\* task loads them: the files are read again for every CONNECT flow.
\* LoadX509KeyPair accepts a pair only if the key belongs to the certificate
RootCAs ==
    {[Leaf |-> "rootCA-A", PrivateKey |-> "rootCA-A"],
     [Leaf |-> "rootCA-B", PrivateKey |-> "rootCA-B"]}

\* no key pair loaded yet
NoCA ==
    [Leaf |-> "none", PrivateKey |-> "none"]

\* no certificate generated yet
NoCert ==
    [CommonName |-> <<>>, DNSNames |-> <<>>, IsCA |-> FALSE,
     Issuer |-> "none", SignedBy |-> "none", PrivateKey |-> 0]

\* generateCertificate that signs the template with its own key
generateCertificateSelfSigned(domain, ca, privateKey) ==
    LET cleanDomain == Split(domain, COLON)[1]
    IN  [CommonName |-> cleanDomain,
         DNSNames   |-> <<cleanDomain, WildcardLabel \o cleanDomain>>,
         IsCA       |-> FALSE,
         Issuer     |-> "self",
         SignedBy   |-> "self",
         PrivateKey |-> privateKey]

\* generateCertificate once the RSA key privateKey is there: the template
\* for strings.Split(domain, ":")[0], signed as a child of ca.Leaf with
\* ca.PrivateKey
generateCertificate(domain, ca, privateKey) ==
    LET cleanDomain == Split(domain, COLON)[1]
    IN  [CommonName |-> cleanDomain,
         DNSNames   |-> <<cleanDomain, WildcardLabel \o cleanDomain>>,
         IsCA       |-> FALSE,
         Issuer     |-> ca.Leaf,
         SignedBy   |-> ca.PrivateKey,
         PrivateKey |-> privateKey]

NoConn ==
    /\ pc = "idle" /\ cin = <<>> /\ cend = "eof" /\ cdeadline = FALSE
    /\ cstate = "open" /\ ccloses = 0 /\ cwrites = <<>>
    /\ host = <<>> /\ target = <<>> /\ raw = <<>> /\ looked = FALSE
    /\ dial = "none" /\ sstate = "none" /\ scloses = 0 /\ sdeadline = FALSE
    /\ swrites = <<>> /\ osend = <<>> /\ oflight = <<>> /\ oend = "eof"
    /\ hs = "none" /\ ctun = <<>> /\ cflight = <<>>
    /\ c2s = "off" /\ s2c = "off" /\ sbuf = <<>>
    /\ ending = [d \in {"c2s", "s2c"} |-> "none"]
    /\ halfclosed = {}
    /\ delivered = <<>>
    /\ rootCA = NoCA /\ leaf = NoCert /\ mints = 0

Init ==
    /\ impl \in Impls
    /\ blocked \in BlockedFiles
    /\ process = "running"
    /\ lastAccept = "none"
    /\ accepted = 0
    /\ keys = 0
    /\ adsLookups = <<>>
    /\ NoConn

Running == process = "running"

(***************************************************************************)
(* Proxy.Start (and main of src/main.go): the accept loop.  Connection     *)
(* tasks share nothing, so one task is modelled at a time: the loop takes  *)
(* the next connection when the task of the last one has returned.         *)
(***************************************************************************)
\* the file "blocked" is rewritten between two connections
EditBlocked ==
    /\ pc \in {"idle", "done"}
    /\ blocked' \in BlockedFiles \ {blocked}
    /\ UNCHANGED <<impl, process, lastAccept, accepted, keys, adsLookups,
                   connVars>>

AcceptError ==
    /\ Running
    /\ pc \in {"idle", "done"}
    /\ lastAccept # "error"
    /\ lastAccept' = "error"
    /\ UNCHANGED <<impl, blocked, process, accepted, keys, adsLookups,
                   connVars>>

Accept ==
    /\ Running
    /\ pc \in {"idle", "done"}
    /\ accepted < MaxAccepts
    /\ accepted' = accepted + 1
    /\ lastAccept' = "conn"
    /\ pc' = "handleConnection"
    /\ cin' \in ClientStreams
    /\ cend' \in StreamEnds
    /\ ctun' = <<>>
    /\ cdeadline' = FALSE /\ cstate' = "open" /\ ccloses' = 0 /\ cwrites' = <<>>
    /\ host' = <<>> /\ target' = <<>> /\ raw' = <<>> /\ looked' = FALSE
    /\ dial' = "none" /\ sstate' = "none" /\ scloses' = 0 /\ sdeadline' = FALSE
    /\ swrites' = <<>> /\ osend' = <<>> /\ oflight' = <<>> /\ oend' = "eof"
    /\ hs' = "none" /\ cflight' = <<>>
    /\ c2s' = "off" /\ s2c' = "off" /\ sbuf' = <<>>
    /\ ending' = [d \in {"c2s", "s2c"} |-> "none"]
    /\ halfclosed' = {}
    /\ delivered' = <<>>
    /\ rootCA' = NoCA /\ leaf' = NoCert /\ mints' = 0
    /\ UNCHANGED <<impl, blocked, process, keys, adsLookups>>

(***************************************************************************)
(* handleConnection (the same code in both programs): arm the deadline,    *)
(* peek seven bytes, route.                                                *)
(***************************************************************************)
\* a dispatcher that peeks without arming the deadline first
handleConnectionUnarmed ==
    /\ Running
    /\ pc = "handleConnection"
    /\ cdeadline' = cdeadline
    /\ LET peek == Peek(cin, cend, cdeadline, PeekLen)
       IN  /\ peek.err # "hang"
           /\ pc' = IF peek.err # "nil" THEN "hc_return"
                    ELSE IF peek.bytes = WordCONNECT THEN "handleHTTPS"
                    ELSE "handleHTTP"
    /\ UNCHANGED <<procVars, cin, cend, cstate, ccloses, cwrites, host, target,
                   raw, looked, dial, sstate, scloses, sdeadline, swrites,
                   osend, oflight, oend, hs, rootCA, leaf, mints, ctun, cflight, c2s, s2c, sbuf,
                   ending, halfclosed, delivered>>

\* a dispatcher that routes without looking at the error of the peek
handleConnectionUnchecked ==
    /\ Running
    /\ pc = "handleConnection"
    /\ cdeadline' = TRUE
    /\ LET peek == Peek(cin, cend, TRUE, PeekLen)
       IN  pc' = IF peek.bytes = WordCONNECT THEN "handleHTTPS"
                 ELSE "handleHTTP"
    /\ UNCHANGED <<procVars, cin, cend, cstate, ccloses, cwrites, host, target,
                   raw, looked, dial, sstate, scloses, sdeadline, swrites,
                   osend, oflight, oend, hs, rootCA, leaf, mints, ctun, cflight, c2s, s2c, sbuf,
                   ending, halfclosed, delivered>>

handleConnection ==
    /\ Running
    /\ pc = "handleConnection"
    /\ cdeadline' = TRUE
    /\ LET peek == Peek(cin, cend, TRUE, PeekLen)
       IN  pc' = IF peek.err # "nil" THEN "hc_return"
                 ELSE IF peek.bytes = WordCONNECT THEN "handleHTTPS"
                 ELSE "handleHTTP"
    /\ UNCHANGED <<procVars, cin, cend, cstate, ccloses, cwrites, host, target,
                   raw, looked, dial, sstate, scloses, sdeadline, swrites,
                   osend, oflight, oend, hs, rootCA, leaf, mints, ctun, cflight, c2s, s2c, sbuf,
                   ending, halfclosed, delivered>>

\* the deferred client.Close() of handleConnection
handleConnectionReturn ==
    /\ Running
    /\ pc = "hc_return"
    /\ CloseClient
    /\ pc' = "done"
    /\ UNCHANGED <<procVars, cin, cend, cdeadline, cwrites, host, target, raw,
                   looked, dial, sstate, scloses, sdeadline, swrites, osend,
                   oflight, oend, hs, rootCA, leaf, mints, ctun, cflight, c2s, s2c, sbuf, ending, halfclosed, delivered>>

(***************************************************************************)
(* proxy/http.go: Proxy.handleHTTP.                                        *)
(***************************************************************************)
\* SetDeadline, parseRequest
HTTPParse ==
    /\ Running
    /\ impl = "proxy" /\ pc = "handleHTTP"
    /\ cdeadline' = TRUE
    /\ LET p == requestOf[cin, cend, TRUE]
       IN  /\ cin' = p.rest
           /\ IF p.err # "nil"
              THEN /\ pc' = "http_return"
                   /\ UNCHANGED <<host, target, raw>>
              ELSE /\ pc' = "http_check"
                   /\ host' = p.req.Host
                   /\ target' = p.req.Host \o <<COLON>> \o p.req.Port
                   /\ raw' = p.req.Raw
    /\ UNCHANGED <<procVars, cend, cstate, ccloses, cwrites, looked, dial,
                   sstate, scloses, sdeadline, swrites, osend, oflight, oend,
                   hs, rootCA, leaf, mints, ctun, cflight, c2s, s2c, sbuf, ending, halfclosed, delivered>>

\* the lookup of a host, noted when the host is ads.t in any letter case
NoteLookup(blocks) ==
    adsLookups' = IF EqualFold(host, HostAds)
                  THEN Append(adsLookups, IF blocks THEN "blocked" ELSE "passed")
                  ELSE adsLookups

\* checkAndBlockHost(client, req.Host): checkHost opens and scans the file
HTTPCheckHost ==
    /\ Running
    /\ impl = "proxy" /\ pc = "http_check"
    /\ looked' = TRUE
    /\ NoteLookup(shouldBlock(host, blocked))
    /\ IF shouldBlock(host, blocked)
       THEN /\ \E ok \in BOOLEAN : ClientWrite(Msg403(host), ok)
            /\ pc' = "http_return"
       ELSE /\ pc' = "http_dial"
            /\ UNCHANGED cwrites
    /\ UNCHANGED <<impl, blocked, process, lastAccept, accepted, keys, cin,
                   cend, cdeadline, cstate, ccloses, host, target, raw, dial,
                   sstate, scloses, sdeadline, swrites, osend, oflight, oend,
                   hs, rootCA, leaf, mints, ctun, cflight, c2s, s2c, sbuf,
                   ending, halfclosed, delivered>>

\* net.Dial("tcp", target); no deadline is set on the connection
HTTPDial ==
    /\ Running
    /\ impl = "proxy" /\ pc = "http_dial"
    /\ \/ /\ dial' = "failed"
          /\ pc' = "http_return"
          /\ UNCHANGED <<sstate, osend, oend>>
       \/ /\ dial' = "ok"
          /\ sstate' = "open"
          /\ osend' \in OriginResponses
          /\ oend' \in StreamEnds
          /\ pc' = "http_forward_request"
    /\ UNCHANGED <<procVars, cin, cend, cdeadline, cstate, ccloses, cwrites,
                   host, target, raw, looked, scloses, sdeadline, swrites,
                   oflight, hs, rootCA, leaf, mints, ctun, cflight, c2s, s2c, sbuf, ending, halfclosed, delivered>>

\* server.Write([]byte(req.Raw))
HTTPForwardRequest ==
    /\ Running
    /\ impl = "proxy" /\ pc = "http_forward_request"
    /\ \/ /\ swrites' = swrites \o raw
          /\ pc' = "http_forward_response"
       \/ /\ pc' = "http_return"
          /\ UNCHANGED swrites
    /\ UNCHANGED <<procVars, cin, cend, cdeadline, cstate, ccloses, cwrites,
                   host, target, raw, looked, dial, sstate, scloses, sdeadline,
                   osend, oflight, oend, hs, rootCA, leaf, mints, ctun, cflight, c2s, s2c, sbuf,
                   ending, halfclosed, delivered>>

\* forwardResponse: parseResponse from the origin, then client.Write.  The
\* read blocks while the origin is silent and no deadline is armed.  A
\* panic in parseResponse unwinds the goroutine, which runs the deferred
\* server.Close() and the two deferred client.Close(), and then ends the
\* process.
HTTPForwardResponse ==
    /\ Running
    /\ impl = "proxy" /\ pc = "http_forward_response"
    /\ LET r == responseOf[osend, oend, sdeadline]
       IN  /\ r.err # "hang"
           /\ IF r.err = "panic"
              THEN /\ process' = "crashed"
                   /\ CloseServer
                   /\ cstate' = "closed" /\ ccloses' = ccloses + 2
                   /\ UNCHANGED <<pc, cwrites>>
              ELSE /\ process' = process
                   /\ pc' = "http_return"
                   /\ IF r.err = "nil"
                      THEN \E ok \in BOOLEAN : ClientWrite(MsgRaw(r.raw), ok)
                      ELSE UNCHANGED cwrites
                   /\ UNCHANGED <<cstate, ccloses, sstate, scloses>>
    /\ UNCHANGED <<impl, blocked, lastAccept, accepted, keys, adsLookups, cin, cend,
                   cdeadline, host, target, raw, looked, dial, sdeadline,
                   swrites, osend, oflight, oend, hs, rootCA, leaf, mints,
                   ctun, cflight, c2s, s2c, sbuf, ending, halfclosed,
                   delivered>>

\* the deferred calls of handleHTTP: server.Close() when the dial
\* succeeded, then client.Close()
HTTPReturn ==
    /\ Running
    /\ impl = "proxy" /\ pc = "http_return"
    /\ IF sstate = "none" THEN UNCHANGED <<sstate, scloses>> ELSE CloseServer
    /\ CloseClient
    /\ pc' = "hc_return"
    /\ UNCHANGED <<procVars, cin, cend, cdeadline, cwrites, host, target, raw,
                   looked, dial, sdeadline, swrites, osend, oflight, oend, hs, rootCA, leaf, mints,
                   ctun, cflight, c2s, s2c, sbuf, ending, halfclosed, delivered>>

(***************************************************************************)
(* proxy: Proxy.handleHTTPS and Proxy.establishMITMTunnel.                 *)
(***************************************************************************)
\* processConnectRequest(reader)
HTTPSProcessConnect ==
    /\ Running
    /\ impl = "proxy" /\ pc = "handleHTTPS"
    /\ LET p == connectOf[cin, cend, cdeadline]
       IN  /\ p.err # "hang"
           /\ cin' = p.rest
           /\ IF p.err # "nil"
              THEN /\ pc' = "https_return"
                   /\ UNCHANGED <<host, target>>
              ELSE /\ pc' = "https_check"
                   /\ host' = p.domain
                   /\ target' = p.target
    /\ UNCHANGED <<procVars, cend, cdeadline, cstate, ccloses, cwrites, raw,
                   looked, dial, sstate, scloses, sdeadline, swrites, osend,
                   oflight, oend, hs, rootCA, leaf, mints, ctun, cflight, c2s, s2c, sbuf, ending, halfclosed, delivered>>

\* a lookup that answers from the first lookup of the host
HTTPSCheckHostCached ==
    /\ Running
    /\ impl = "proxy" /\ pc = "https_check"
    /\ looked' = TRUE
    /\ LET blocks == IF EqualFold(host, HostAds) /\ adsLookups # <<>>
                     THEN adsLookups[1] = "blocked"
                     ELSE shouldBlock(host, blocked)
       IN  /\ NoteLookup(blocks)
           /\ IF blocks
              THEN /\ \E ok \in BOOLEAN : ClientWrite(Msg403(host), ok)
                   /\ pc' = "https_return"
              ELSE /\ pc' = "mitm_ack"
                   /\ UNCHANGED cwrites
    /\ UNCHANGED <<impl, blocked, process, lastAccept, accepted, keys, cin,
                   cend, cdeadline, cstate, ccloses, host, target, raw, dial,
                   sstate, scloses, sdeadline, swrites, osend, oflight, oend,
                   hs, rootCA, leaf, mints, ctun, cflight, c2s, s2c, sbuf,
                   ending, halfclosed, delivered>>

\* checkAndBlockHost(client, domain): checkHost opens and scans the file
HTTPSCheckHost ==
    /\ Running
    /\ impl = "proxy" /\ pc = "https_check"
    /\ looked' = TRUE
    /\ NoteLookup(shouldBlock(host, blocked))
    /\ IF shouldBlock(host, blocked)
       THEN /\ \E ok \in BOOLEAN : ClientWrite(Msg403(host), ok)
            /\ pc' = "https_return"
       ELSE /\ pc' = "mitm_ack"
            /\ UNCHANGED cwrites
    /\ UNCHANGED <<impl, blocked, process, lastAccept, accepted, keys, cin,
                   cend, cdeadline, cstate, ccloses, host, target, raw, dial,
                   sstate, scloses, sdeadline, swrites, osend, oflight, oend,
                   hs, rootCA, leaf, mints, ctun, cflight, c2s, s2c, sbuf,
                   ending, halfclosed, delivered>>

\* the 200 write with its error dropped
MITMAckIgnoringError ==
    /\ Running
    /\ impl = "proxy" /\ pc = "mitm_ack"
    /\ \E ok \in BOOLEAN : ClientWrite(Msg200, ok)
    /\ pc' = "mitm_load_ca"
    /\ UNCHANGED <<procVars, cin, cend, cdeadline, cstate, ccloses, host, target,
                   raw, looked, dial, sstate, scloses, sdeadline, swrites,
                   osend, oflight, oend, hs, rootCA, leaf, mints, ctun, cflight, c2s, s2c, sbuf,
                   ending, halfclosed, delivered>>

\* client.Write("HTTP/1.1 200 Connection Established\r\n\r\n"); an error
\* returns
MITMAck ==
    /\ Running
    /\ impl = "proxy" /\ pc = "mitm_ack"
    /\ \E ok \in BOOLEAN :
          /\ ClientWrite(Msg200, ok)
          /\ pc' = IF ok THEN "mitm_load_ca" ELSE "https_return"
    /\ UNCHANGED <<procVars, cin, cend, cdeadline, cstate, ccloses, host, target,
                   raw, looked, dial, sstate, scloses, sdeadline, swrites,
                   osend, oflight, oend, hs, rootCA, leaf, mints, ctun, cflight, c2s, s2c, sbuf,
                   ending, halfclosed, delivered>>

\* tls.LoadX509KeyPair("certs/rootCA.pem", "certs/rootCA.key"); an error
\* returns
MITMLoadCA ==
    /\ Running
    /\ impl = "proxy" /\ pc = "mitm_load_ca"
    /\ \/ rootCA' \in RootCAs /\ pc' = "mitm_mint"
       \/ rootCA' = rootCA /\ pc' = "https_return"
    /\ UNCHANGED <<procVars, cin, cend, cdeadline, cstate, ccloses, cwrites,
                   host, target, raw, looked, dial, sstate, scloses, sdeadline,
                   swrites, osend, oflight, oend, hs, leaf, mints, ctun,
                   cflight, c2s, s2c, sbuf, ending, halfclosed, delivered>>

\* p.generateCertificate(domain, &rootCA): rsa.GenerateKey fails, or
\* x509.CreateCertificate fails with the new key dropped, or the signed
\* certificate is returned with its key; an error returns
MITMMint ==
    /\ Running
    /\ impl = "proxy" /\ pc = "mitm_mint"
    /\ mints' = mints + 1
    /\ \/ /\ pc' = "https_return"
          /\ UNCHANGED <<keys, leaf>>
       \/ /\ pc' = "https_return"
          /\ keys' = keys + 1
          /\ UNCHANGED leaf
       \/ /\ pc' = "mitm_handshake"
          /\ keys' = keys + 1
          /\ leaf' = generateCertificate(host, rootCA, keys + 1)
    /\ UNCHANGED <<impl, blocked, process, lastAccept, accepted, adsLookups, cin, cend,
                   cdeadline, cstate, ccloses, cwrites, host, target, raw,
                   looked, dial, sstate, scloses, sdeadline, swrites, osend,
                   oflight, oend, hs, rootCA, ctun, cflight, c2s, s2c, sbuf,
                   ending, halfclosed, delivered>>

\* a handshake whose failure is not looked at
MITMHandshakeIgnoringError ==
    /\ Running
    /\ impl = "proxy" /\ pc = "mitm_handshake"
    /\ cdeadline
    /\ hs' \in IF cin = <<>> THEN {"ok", "failed"} ELSE {"failed"}
    /\ pc' = "mitm_dial"
    /\ UNCHANGED <<procVars, cin, cend, cdeadline, cstate, ccloses, cwrites,
                   host, target, raw, looked, dial, sstate, scloses, sdeadline,
                   swrites, osend, oflight, oend, rootCA, leaf, mints, ctun,
                   cflight, c2s, s2c, sbuf, ending, halfclosed, delivered>>

\* tls.Server(client, tlsConfig).Handshake(): the client completes it or
\* not; a silent client ends it by the deadline.  The TLS endpoint reads
\* the socket, not the dispatcher's reader: bytes the reader still holds
\* never reach it, and a handshake whose first bytes are among them fails
MITMHandshake ==
    /\ Running
    /\ impl = "proxy" /\ pc = "mitm_handshake"
    /\ cdeadline
    /\ \/ cin = <<>> /\ hs' = "ok" /\ pc' = "mitm_dial"
       \/ hs' = "failed" /\ pc' = "https_return"
    /\ UNCHANGED <<procVars, cin, cend, cdeadline, cstate, ccloses, cwrites,
                   host, target, raw, looked, dial, sstate, scloses, sdeadline,
                   swrites, osend, oflight, oend, rootCA, leaf, mints, ctun,
                   cflight, c2s, s2c, sbuf, ending, halfclosed, delivered>>

\* tls.Dial("tcp", target, ...): no timeout and no deadline, so an origin
\* that accepts the TCP connection and never answers the handshake leaves
\* the call blocked ("hang").  On success tunnelConnections starts its two
\* copy tasks.
MITMDial ==
    /\ Running
    /\ impl = "proxy" /\ pc = "mitm_dial"
    /\ \/ /\ dial' = "failed"
          /\ pc' = "https_return"
          /\ UNCHANGED <<sstate, osend, oend, ctun, c2s, s2c>>
       \/ /\ dial' = "hang"
          /\ pc' = "mitm_dial_blocked"
          /\ UNCHANGED <<sstate, osend, oend, ctun, c2s, s2c>>
       \/ /\ dial' = "ok"
          /\ sstate' = "open"
          /\ osend' \in OriginTunnelData
          /\ oend' \in StreamEnds
          /\ ctun' \in ClientTunnelData
          /\ c2s' = "copy"
          /\ s2c' = "hdr"
          /\ pc' = "tunnel"
    /\ UNCHANGED <<procVars, cin, cend, cdeadline, cstate, ccloses, cwrites,
                   host, target, raw, looked, scloses, sdeadline, swrites,
                   oflight, hs, rootCA, leaf, mints, cflight, sbuf, ending, halfclosed, delivered>>

\* the deferred calls on the way out of a tunnel that ran: serverTLS.Close()
\* of establishMITMTunnel
MITMReturn ==
    /\ Running
    /\ impl = "proxy" /\ pc = "mitm_return"
    /\ CloseServer
    /\ pc' = "https_return"
    /\ UNCHANGED <<procVars, cin, cend, cdeadline, cstate, ccloses, cwrites,
                   host, target, raw, looked, dial, sdeadline, swrites, osend,
                   oflight, oend, hs, rootCA, leaf, mints, ctun, cflight, c2s, s2c, sbuf, ending, halfclosed, delivered>>

\* the deferred client.Close() of handleHTTPS
HTTPSReturn ==
    /\ Running
    /\ impl = "proxy" /\ pc = "https_return"
    /\ CloseClient
    /\ pc' = "hc_return"
    /\ UNCHANGED <<procVars, cin, cend, cdeadline, cwrites, host, target, raw,
                   looked, dial, sstate, scloses, sdeadline, swrites, osend,
                   oflight, oend, hs, rootCA, leaf, mints, ctun, cflight, c2s, s2c, sbuf, ending, halfclosed, delivered>>

(***************************************************************************)
(* proxy: Proxy.tunnelConnections and its two copy tasks.                  *)
(***************************************************************************)
\* the read loop of readServerResponse over the bytes at hand: the lines
\* up to and including the first blank one, when it has arrived
RECURSIVE readServerResponse(_, _)
readServerResponse(response, buf) ==
    LET i == IndexByte(buf, LF)
        line == SubSeq(buf, 1, i)
    IN  IF i = 0
        THEN [found |-> FALSE, headers |-> <<>>, rest |-> response \o buf]
        ELSE IF line = CRLF
             THEN [found |-> TRUE, headers |-> response \o line,
                   rest |-> SubSeq(buf, i + 1, Len(buf))]
             ELSE readServerResponse(response \o line, SubSeq(buf, i + 1, Len(buf)))

\* the peers, while the tunnel is up
ClientSend ==
    /\ Running
    /\ pc = "tunnel" /\ ctun # <<>>
    /\ cflight' = cflight \o Head(ctun)
    /\ ctun' = Tail(ctun)
    /\ UNCHANGED <<procVars, pc, cin, cend, cdeadline, cstate, ccloses,
                   cwrites, host, target, raw, looked, dial, sstate, scloses,
                   sdeadline, swrites, osend, oflight, oend, hs, rootCA, leaf, mints, c2s, s2c,
                   sbuf, ending, halfclosed, delivered>>

OriginSend ==
    /\ Running
    /\ pc = "tunnel" /\ osend # <<>>
    /\ oflight' = oflight \o Head(osend)
    /\ osend' = Tail(osend)
    /\ UNCHANGED <<procVars, pc, cin, cend, cdeadline, cstate, ccloses,
                   cwrites, host, target, raw, looked, dial, sstate, scloses,
                   sdeadline, swrites, oend, hs, rootCA, leaf, mints, ctun, cflight, c2s, s2c,
                   sbuf, ending, halfclosed, delivered>>

\* a write of tunnel bytes to the client that succeeds
Deliver(bytes) == delivered' = delivered \o bytes

ClientAtEOF == ctun = <<>> /\ cflight = <<>> /\ cend = "eof"
OriginAtEOF == osend = <<>> /\ oflight = <<>> /\ oend = "eof"

\* io.Copy(server, client), one round: read what the client sent, write
\* it to the origin; a write on the closed origin socket ends the task,
\* which runs its deferred server.Close()
C2SCopy ==
    /\ Running
    /\ impl = "proxy" /\ pc = "tunnel" /\ c2s = "copy"
    /\ cstate = "open" /\ cflight # <<>>
    /\ cflight' = <<>>
    /\ IF sstate = "open"
       THEN /\ swrites' = swrites \o cflight
            /\ UNCHANGED <<c2s, sstate, scloses, ending>>
       ELSE /\ c2s' = "done"
            /\ ending' = [ending EXCEPT !["c2s"] = "write error"]
            /\ CloseServer
            /\ UNCHANGED swrites
    /\ UNCHANGED <<procVars, pc, cin, cend, cdeadline, cstate, ccloses,
                   cwrites, host, target, raw, looked, dial, sdeadline, osend,
                   oflight, oend, hs, rootCA, leaf, mints, ctun, s2c, sbuf, halfclosed, delivered>>

\* why a read of the client returns without data
\* "closed": the socket was closed by the other task; "source": the
\* client closed (EOF) or the deadline passed (timeout)
ClientReadEnds ==
    {w \in {"closed", "source"} :
        \/ w = "closed" /\ cstate = "closed"
        \/ w = "source" /\ cstate = "open" /\ (ClientAtEOF \/ cdeadline)}

\* io.Copy(server, client) ends; the task's deferred server.Close() and
\* wg.Done()
C2SEnd ==
    /\ Running
    /\ impl = "proxy" /\ pc = "tunnel" /\ c2s = "copy"
    /\ \E w \in ClientReadEnds : ending' = [ending EXCEPT !["c2s"] = w]
    /\ CloseServer
    /\ c2s' = "done"
    /\ UNCHANGED <<procVars, pc, cin, cend, cdeadline, cstate, ccloses,
                   cwrites, host, target, raw, looked, dial, sdeadline,
                   swrites, osend, oflight, oend, hs, rootCA, leaf, mints, ctun, cflight, s2c, sbuf,
                   halfclosed, delivered>>

\* forwardServerResponse, first part: readServerResponse takes what the
\* origin sent; once the blank line is in, the headers are written to the
\* client.  A failed write returns, and the task's deferred client.Close()
\* runs.
S2CReadHeaders ==
    /\ Running
    /\ impl = "proxy" /\ pc = "tunnel" /\ s2c = "hdr"
    /\ sstate = "open" /\ oflight # <<>>
    /\ oflight' = <<>>
    /\ LET h == readServerResponse(<<>>, sbuf \o oflight)
       IN  /\ sbuf' = h.rest
           /\ IF h.found
              THEN \/ /\ Deliver(h.headers)
                      /\ s2c' = "body"
                      /\ UNCHANGED <<cstate, ccloses, ending>>
                   \/ /\ s2c' = "done"
                      /\ ending' = [ending EXCEPT !["s2c"] = "write error"]
                      /\ CloseClient
                      /\ UNCHANGED delivered
              ELSE UNCHANGED <<s2c, delivered, cstate, ccloses, ending>>
    /\ UNCHANGED <<procVars, pc, cin, cend, cdeadline, cwrites, host, target, raw,
                   looked, dial, sstate, scloses, sdeadline, swrites, osend,
                   oend, hs, rootCA, leaf, mints, ctun, cflight, c2s, halfclosed>>

\* forwardServerResponse, second part: io.Copy(client, teeReader), one
\* round: first what serverReader still holds, then what the origin sent
S2CCopy ==
    /\ Running
    /\ impl = "proxy" /\ pc = "tunnel" /\ s2c = "body"
    /\ sbuf # <<>> \/ (sstate = "open" /\ oflight # <<>>)
    /\ \/ /\ Deliver(IF sbuf # <<>> THEN sbuf ELSE oflight)
          /\ UNCHANGED <<s2c, cstate, ccloses, ending>>
       \/ /\ s2c' = "done"
          /\ ending' = [ending EXCEPT !["s2c"] = "write error"]
          /\ CloseClient
          /\ UNCHANGED delivered
    /\ IF sbuf # <<>>
       THEN sbuf' = <<>> /\ UNCHANGED oflight
       ELSE oflight' = <<>> /\ UNCHANGED sbuf
    /\ UNCHANGED <<procVars, pc, cin, cend, cdeadline, cwrites, host, target, raw,
                   looked, dial, sstate, scloses, sdeadline, swrites, osend,
                   oend, hs, rootCA, leaf, mints, ctun, cflight, c2s, halfclosed>>

\* a read of the origin returns without data: the origin closed (EOF), or
\* the origin socket was closed by the other task (error); no deadline is
\* armed on it.  forwardServerResponse returns; the task's deferred
\* client.Close() and wg.Done()
S2CEnd ==
    /\ Running
    /\ impl = "proxy" /\ pc = "tunnel" /\ s2c \in {"hdr", "body"}
    /\ s2c = "body" => sbuf = <<>>
    /\ \/ /\ sstate = "closed"
          /\ ending' = [ending EXCEPT !["s2c"] = "closed"]
       \/ /\ sstate = "open" /\ OriginAtEOF
          /\ ending' = [ending EXCEPT !["s2c"] = "source"]
    /\ CloseClient
    /\ s2c' = "done"
    /\ UNCHANGED <<procVars, pc, cin, cend, cdeadline, cwrites, host, target,
                   raw, looked, dial, sstate, scloses, sdeadline, swrites,
                   osend, oflight, oend, hs, rootCA, leaf, mints, ctun, cflight, c2s, sbuf,
                   halfclosed, delivered>>

\* a Wait that returns as soon as one of the two tasks is done
TunnelWaitForOne ==
    /\ Running
    /\ pc = "tunnel" /\ (c2s = "done" \/ s2c = "done")
    /\ pc' = IF impl = "proxy" THEN "mitm_return" ELSE "main_https_return"
    /\ UNCHANGED <<procVars, cin, cend, cdeadline, cstate, ccloses, cwrites,
                   host, target, raw, looked, dial, sstate, scloses, sdeadline,
                   swrites, osend, oflight, oend, hs, rootCA, leaf, mints, ctun, cflight, c2s, s2c,
                   sbuf, ending, halfclosed, delivered>>

\* wg.Wait() returns when both tasks are done
TunnelWait ==
    /\ Running
    /\ pc = "tunnel" /\ c2s = "done" /\ s2c = "done"
    /\ pc' = IF impl = "proxy" THEN "mitm_return" ELSE "main_https_return"
    /\ UNCHANGED <<procVars, cin, cend, cdeadline, cstate, ccloses, cwrites,
                   host, target, raw, looked, dial, sstate, scloses, sdeadline,
                   swrites, osend, oflight, oend, hs, rootCA, leaf, mints, ctun, cflight, c2s, s2c,
                   sbuf, ending, halfclosed, delivered>>

(***************************************************************************)
(* src/main.go: handleHTTP.                                                *)
(***************************************************************************)
\* ParseRawHTTP(reader)
MainHTTPParse ==
    /\ Running
    /\ impl = "main" /\ pc = "handleHTTP"
    /\ LET p == requestOf[cin, cend, cdeadline]
       IN  /\ p.err # "hang"
           /\ cin' = p.rest
           /\ IF p.err # "nil"
              THEN /\ pc' = "hc_return"
                   /\ UNCHANGED <<host, target, raw>>
              ELSE /\ pc' = "main_http_dial"
                   /\ host' = p.req.Host
                   /\ target' = p.req.Host \o <<COLON>> \o p.req.Port
                   /\ raw' = p.req.Raw
    /\ UNCHANGED <<procVars, cend, cdeadline, cstate, ccloses, cwrites, looked,
                   dial, sstate, scloses, sdeadline, swrites, osend, oflight,
                   oend, hs, rootCA, leaf, mints, ctun, cflight, c2s, s2c, sbuf, ending, halfclosed, delivered>>

\* net.Dial("tcp", targetAddr), then server.SetDeadline
MainHTTPDial ==
    /\ Running
    /\ impl = "main" /\ pc = "main_http_dial"
    /\ \/ /\ dial' = "failed"
          /\ pc' = "hc_return"
          /\ UNCHANGED <<sstate, sdeadline, osend, oend>>
       \/ /\ dial' = "ok"
          /\ sstate' = "open"
          /\ sdeadline' = TRUE
          /\ osend' \in OriginResponses
          /\ oend' \in StreamEnds
          /\ pc' = "main_http_forward_request"
    /\ UNCHANGED <<procVars, cin, cend, cdeadline, cstate, ccloses, cwrites,
                   host, target, raw, looked, scloses, swrites, oflight, hs, rootCA, leaf, mints,
                   ctun, cflight, c2s, s2c, sbuf, ending, halfclosed, delivered>>

\* server.Write([]byte(httpObj.raw))
MainHTTPForwardRequest ==
    /\ Running
    /\ impl = "main" /\ pc = "main_http_forward_request"
    /\ \/ /\ swrites' = swrites \o raw
          /\ pc' = "main_http_forward_response"
       \/ /\ pc' = "main_http_return"
          /\ UNCHANGED swrites
    /\ UNCHANGED <<procVars, cin, cend, cdeadline, cstate, ccloses, cwrites,
                   host, target, raw, looked, dial, sstate, scloses, sdeadline,
                   osend, oflight, oend, hs, rootCA, leaf, mints, ctun, cflight, c2s, s2c, sbuf,
                   ending, halfclosed, delivered>>

\* parseHTTPResponse from the origin, then client.Write(resp.RawResponse);
\* a panic runs the deferred server.Close() and client.Close() and ends
\* the process
MainHTTPForwardResponse ==
    /\ Running
    /\ impl = "main" /\ pc = "main_http_forward_response"
    /\ LET r == responseOf[osend, oend, sdeadline]
       IN  /\ r.err # "hang"
           /\ IF r.err = "panic"
              THEN /\ process' = "crashed"
                   /\ CloseServer
                   /\ cstate' = "closed" /\ ccloses' = ccloses + 1
                   /\ UNCHANGED <<pc, cwrites>>
              ELSE /\ process' = process
                   /\ pc' = "main_http_return"
                   /\ IF r.err = "nil"
                      THEN \E ok \in BOOLEAN : ClientWrite(MsgRaw(r.raw), ok)
                      ELSE UNCHANGED cwrites
                   /\ UNCHANGED <<cstate, ccloses, sstate, scloses>>
    /\ UNCHANGED <<impl, blocked, lastAccept, accepted, keys, adsLookups, cin, cend,
                   cdeadline, host, target, raw, looked, dial, sdeadline,
                   swrites, osend, oflight, oend, hs, rootCA, leaf, mints,
                   ctun, cflight, c2s, s2c, sbuf, ending, halfclosed,
                   delivered>>

\* the deferred server.Close() of handleHTTP
MainHTTPReturn ==
    /\ Running
    /\ impl = "main" /\ pc = "main_http_return"
    /\ CloseServer
    /\ pc' = "hc_return"
    /\ UNCHANGED <<procVars, cin, cend, cdeadline, cstate, ccloses, cwrites,
                   host, target, raw, looked, dial, sdeadline, swrites, osend,
                   oflight, oend, hs, rootCA, leaf, mints, ctun, cflight, c2s, s2c, sbuf, ending,
                   halfclosed, delivered>>

(***************************************************************************)
(* src/main.go: handleHTTPS, a raw TCP tunnel.                             *)
(***************************************************************************)
\* read the CONNECT request and take the target from its first line (the
\* same steps as readConnectRequest and processConnectRequest)
MainHTTPSReadConnect ==
    /\ Running
    /\ impl = "main" /\ pc = "handleHTTPS"
    /\ LET p == connectOf[cin, cend, cdeadline]
       IN  /\ p.err # "hang"
           /\ cin' = p.rest
           /\ IF p.err # "nil"
              THEN /\ pc' = "hc_return"
                   /\ UNCHANGED <<host, target>>
              ELSE /\ pc' = "main_https_dial"
                   /\ host' = p.domain
                   /\ target' = p.target
    /\ UNCHANGED <<procVars, cend, cdeadline, cstate, ccloses, cwrites, raw,
                   looked, dial, sstate, scloses, sdeadline, swrites, osend,
                   oflight, oend, hs, rootCA, leaf, mints, ctun, cflight, c2s, s2c, sbuf, ending,
                   halfclosed, delivered>>

\* a dial that returns on failure without the 502
MainHTTPSDialSilent ==
    /\ Running
    /\ impl = "main" /\ pc = "main_https_dial"
    /\ \/ /\ dial' = "failed"
          /\ pc' = "hc_return"
          /\ UNCHANGED <<sstate, osend, oend>>
       \/ /\ dial' = "ok"
          /\ sstate' = "open"
          /\ osend' \in OriginTunnelData
          /\ oend' \in StreamEnds
          /\ pc' = "main_https_ack"
    /\ UNCHANGED <<procVars, cin, cend, cdeadline, cstate, ccloses, cwrites,
                   host, target, raw, looked, scloses, sdeadline, swrites,
                   oflight, hs, rootCA, leaf, mints, ctun, cflight, c2s, s2c,
                   sbuf, ending, halfclosed, delivered>>

\* net.Dial("tcp", target); on failure the 502 is written
MainHTTPSDial ==
    /\ Running
    /\ impl = "main" /\ pc = "main_https_dial"
    /\ \/ /\ dial' = "failed"
          /\ \E ok \in BOOLEAN : ClientWrite(Msg502, ok)
          /\ pc' = "hc_return"
          /\ UNCHANGED <<sstate, osend, oend>>
       \/ /\ dial' = "ok"
          /\ sstate' = "open"
          /\ osend' \in OriginTunnelData
          /\ oend' \in StreamEnds
          /\ pc' = "main_https_ack"
          /\ UNCHANGED cwrites
    /\ UNCHANGED <<procVars, cin, cend, cdeadline, cstate, ccloses, host,
                   target, raw, looked, scloses, sdeadline, swrites, oflight,
                   hs, rootCA, leaf, mints, ctun, cflight, c2s, s2c, sbuf, ending, halfclosed, delivered>>

\* client.Write("HTTP/1.1 200 Connection Established\r\n\r\n"), then the
\* two copy tasks start; the client-to-origin copy reads through reader,
\* so what reader still holds goes first
MainHTTPSAck ==
    /\ Running
    /\ impl = "main" /\ pc = "main_https_ack"
    /\ \E ok \in BOOLEAN :
          /\ ClientWrite(Msg200, ok)
          /\ IF ok
             THEN /\ pc' = "tunnel"
                  /\ c2s' = "copy"
                  /\ s2c' = "body"
                  /\ ctun' \in ClientTunnelData
                  /\ cflight' = cin
                  /\ cin' = <<>>
             ELSE /\ pc' = "main_https_return"
                  /\ UNCHANGED <<c2s, s2c, ctun, cflight, cin>>
    /\ UNCHANGED <<procVars, cend, cdeadline, cstate, ccloses, host, target,
                   raw, looked, dial, sstate, scloses, sdeadline, swrites,
                   osend, oflight, oend, hs, rootCA, leaf, mints, sbuf, ending, halfclosed, delivered>>

\* io.Copy(server, reader), one round
MainC2SCopy ==
    /\ Running
    /\ impl = "main" /\ pc = "tunnel" /\ c2s = "copy"
    /\ cflight # <<>>
    /\ cflight' = <<>>
    /\ \/ /\ swrites' = swrites \o cflight
          /\ UNCHANGED <<c2s, ending, halfclosed>>
       \/ /\ c2s' = "done"
          /\ ending' = [ending EXCEPT !["c2s"] = "write error"]
          /\ halfclosed' = halfclosed \cup {"server"}
          /\ UNCHANGED swrites
    /\ UNCHANGED <<procVars, pc, cin, cend, cdeadline, cstate, ccloses,
                   cwrites, host, target, raw, looked, dial, sstate, scloses,
                   sdeadline, osend, oflight, oend, hs, rootCA, leaf, mints, ctun, s2c, sbuf, delivered>>

\* io.Copy(server, reader) ends (EOF or the deadline); then
\* server.CloseWrite() and wg.Done()
MainC2SEnd ==
    /\ Running
    /\ impl = "main" /\ pc = "tunnel" /\ c2s = "copy"
    /\ \E w \in ClientReadEnds : ending' = [ending EXCEPT !["c2s"] = w]
    /\ halfclosed' = halfclosed \cup {"server"}
    /\ c2s' = "done"
    /\ UNCHANGED <<procVars, pc, cin, cend, cdeadline, cstate, ccloses,
                   cwrites, host, target, raw, looked, dial, sstate, scloses,
                   sdeadline, swrites, osend, oflight, oend, hs, rootCA, leaf, mints, ctun, cflight,
                   s2c, sbuf, delivered>>

\* io.Copy(client, server), one round; a failed write ends the task, then
\* client.CloseWrite() and wg.Done()
MainS2CCopy ==
    /\ Running
    /\ impl = "main" /\ pc = "tunnel" /\ s2c = "body"
    /\ oflight # <<>>
    /\ oflight' = <<>>
    /\ \/ /\ Deliver(oflight)
          /\ UNCHANGED <<s2c, ending, halfclosed>>
       \/ /\ s2c' = "done"
          /\ ending' = [ending EXCEPT !["s2c"] = "write error"]
          /\ halfclosed' = halfclosed \cup {"client"}
          /\ UNCHANGED delivered
    /\ UNCHANGED <<procVars, pc, cin, cend, cdeadline, cstate, ccloses, cwrites, host,
                   target, raw, looked, dial, sstate, scloses, sdeadline,
                   swrites, osend, oend, hs, rootCA, leaf, mints, ctun, cflight, c2s, sbuf>>

\* io.Copy(client, server) ends when the origin closes (no deadline is
\* armed on the origin socket); then client.CloseWrite() and wg.Done()
MainS2CEnd ==
    /\ Running
    /\ impl = "main" /\ pc = "tunnel" /\ s2c = "body"
    /\ OriginAtEOF
    /\ ending' = [ending EXCEPT !["s2c"] = "source"]
    /\ halfclosed' = halfclosed \cup {"client"}
    /\ s2c' = "done"
    /\ UNCHANGED <<procVars, pc, cin, cend, cdeadline, cstate, ccloses,
                   cwrites, host, target, raw, looked, dial, sstate, scloses,
                   sdeadline, swrites, osend, oflight, oend, hs, rootCA, leaf, mints, ctun, cflight,
                   c2s, sbuf, delivered>>

\* the deferred server.Close() of handleHTTPS
MainHTTPSReturn ==
    /\ Running
    /\ impl = "main" /\ pc = "main_https_return"
    /\ CloseServer
    /\ pc' = "hc_return"
    /\ UNCHANGED <<procVars, cin, cend, cdeadline, cstate, ccloses, cwrites,
                   host, target, raw, looked, dial, sdeadline, swrites, osend,
                   oflight, oend, hs, rootCA, leaf, mints, ctun, cflight, c2s, s2c, sbuf, ending,
                   halfclosed, delivered>>

(***************************************************************************)
(* The programs.                                                           *)
(***************************************************************************)
\* what the environment does: connections arrive, peers send
Environment ==
    \/ EditBlocked
    \/ AcceptError
    \/ Accept
    \/ ClientSend
    \/ OriginSend

\* the steps of the connection task and of its copy tasks
Task ==
    \/ handleConnection
    \/ handleConnectionReturn
    \/ HTTPParse
    \/ HTTPCheckHost
    \/ HTTPDial
    \/ HTTPForwardRequest
    \/ HTTPForwardResponse
    \/ HTTPReturn
    \/ HTTPSProcessConnect
    \/ HTTPSCheckHost
    \/ MITMAck
    \/ MITMLoadCA
    \/ MITMMint
    \/ MITMHandshake
    \/ MITMDial
    \/ C2SCopy
    \/ C2SEnd
    \/ S2CReadHeaders
    \/ S2CCopy
    \/ S2CEnd
    \/ TunnelWait
    \/ MITMReturn
    \/ HTTPSReturn
    \/ MainHTTPParse
    \/ MainHTTPDial
    \/ MainHTTPForwardRequest
    \/ MainHTTPForwardResponse
    \/ MainHTTPReturn
    \/ MainHTTPSReadConnect
    \/ MainHTTPSDial
    \/ MainHTTPSAck
    \/ MainC2SCopy
    \/ MainC2SEnd
    \/ MainS2CCopy
    \/ MainS2CEnd
    \/ MainHTTPSReturn

Next == Environment \/ Task

Spec == Init /\ [][Next]_vars

\* the Go scheduler runs every goroutine that can take a step; the peers
\* are under no obligation
FairSpec == Spec /\ WF_vars(Task)

(***************************************************************************)
(* Properties.                                                             *)
(***************************************************************************)
FoldAll(s) == [i \in 1..Len(s) |-> Fold(s[i])]

\* the file can be read and one of its lines, trimmed, is h up to letter
\* case
Listed(h, file) ==
    /\ file.ok
    /\ \E i \in 1..Len(file.lines) :
          /\ TrimSpace(file.lines[i]) # <<>>
          /\ FoldAll(TrimSpace(file.lines[i])) = FoldAll(h)

Wrote403For(h) ==
    \E i \in 1..Len(cwrites) : cwrites[i].msg = Msg403(h)

\* the hosts a plaintext request names as HTTP reads it: the value, port
\* aside, of every header line whose name is Host in any letter case
HeaderHosts(bytes) ==
    LET lines == Split(bytes, LF)
        isHost(j) ==
            /\ Len(SplitN2(lines[j], COLON)) = 2
            /\ EqualFold(TrimSpace(SplitN2(lines[j], COLON)[1]), KeyHost)
    IN  { Split(TrimSpace(SplitN2(lines[j], COLON)[2]), COLON)[1] :
              j \in { k \in 2..Len(lines) : isHost(k) } }

\* C1: in the proxy package a request whose host (the target of a CONNECT,
\* the Host header of a plaintext request) is on the blocklist, letter case
\* aside, has the 403 written to the client once the lookup is done, and
\* no origin socket is dialed for it.  Stated of a flow that runs: the
\* file is rewritten only between flows.
C1_BlockedHostGets403NoDial ==
    (impl = "proxy" /\ pc # "done") =>
        \A h \in HeaderHosts(raw) \cup {host} :
            Listed(h, blocked) =>
                /\ dial = "none"
                /\ pc \notin {"http_check", "https_check"} => Wrote403For(h)

\* C2: in every handler that dials an origin, of the proxy package and of
\* src/main.go, the blocklist is looked up before the origin is dialed.
C2_LookupBeforeDial == dial # "none" => looked

\* C3: in the proxy package's CONNECT flow the TLS handshake toward the
\* client begins only on a connection on which the write of the 200
\* Connection Established has succeeded.
C3_AckBeforeHandshake ==
    [][(hs = "none" /\ hs' # "none") => WroteOk("200")]_vars

\* the handshake was run
C3_Witness == impl = "proxy" /\ hs = "ok" /\ WroteOk("200")

\* C4: in the proxy package's CONNECT flow, when the dial to the origin
\* fails, the 502 Bad Gateway is written to the client before the client
\* connection is closed.
C4_DialFailureGets502 ==
    (impl = "proxy" /\ hs = "ok" /\ dial = "failed" /\ cstate = "closed") =>
        Wrote("502")

\* C5: on every exit path of Proxy.handleConnection Close is invoked on
\* the client socket exactly once.
C5_ClientClosedExactlyOnce ==
    impl = "proxy" =>
        /\ ccloses <= 1
        /\ pc = "done" => ccloses = 1

\* C6: every origin connection a task of the proxy package opens is closed
\* exactly once by that task.
C6_OriginClosedExactlyOnce ==
    impl = "proxy" =>
        /\ scloses <= 1
        /\ (pc = "done" /\ dial = "ok") => scloses = 1

\* C7: every accepted connection's task of the proxy package eventually
\* terminates, whatever the client and the origin do.
C7_TaskTerminates ==
    (impl = "proxy" /\ pc = "handleConnection")
        ~> (pc = "done" \/ process = "crashed")

\* C8: nothing a connection brings (a request, a response, any header
\* value) ends the accept loop of Proxy.Start.
C8_AcceptLoopSurvives == impl = "proxy" => process = "running"

\* C9: in Proxy.tunnelConnections a copy task that was ended by the end of
\* the other one leaves no byte behind that its source had already sent.
C9_InFlightBytesDelivered ==
    impl = "proxy" =>
        /\ (s2c = "done" /\ ending["s2c"] = "closed") => oflight = <<>>
        /\ (c2s = "done" /\ ending["c2s"] = "closed") => cflight = <<>>

\* C10: in Proxy.tunnelConnections the end of the copy from A to B leaves
\* B readable: while the copy from B to A still runs, B is not closed.
C10_OtherDirectionKeepsRunning ==
    (impl = "proxy" /\ pc = "tunnel") =>
        /\ (c2s = "done" /\ s2c # "done") => sstate = "open"
        /\ (s2c = "done" /\ c2s # "done") => cstate = "open"

\* C11: in the proxy package the pump runs two copy tasks, the
\* client-to-origin one and the origin-to-client one, and returns to its
\* caller only when both have completed.
C11_PumpWaitsForBoth ==
    [][(impl = "proxy" /\ pc = "tunnel") =>
          /\ c2s # "off" /\ s2c # "off"
          /\ pc' # "tunnel" => (c2s = "done" /\ s2c = "done")]_vars

\* a pump that carried bytes has returned
C11_Witness ==
    /\ impl = "proxy" /\ pc = "mitm_return"
    /\ c2s = "done" /\ s2c = "done" /\ delivered # <<>>

\* C12: when Proxy.parseRequest succeeds, req.Raw is byte for byte what
\* the parser consumed from the client stream, also when the header block
\* ends at EOF, and exactly req.Raw is what handleHTTP writes to the origin.
C12_RawIsWhatWasConsumed ==
    [][/\ (impl = "proxy" /\ pc = "handleHTTP" /\ pc' = "http_check") =>
              cin = raw' \o cin'
       /\ (impl = "proxy" /\ pc = "http_forward_request"
              /\ pc' = "http_forward_response") =>
              swrites' = raw]_vars

\* the length of the head of a response: the status line and the header
\* lines up to and including the first blank line; 0 when there is none
HeadLen(bytes) ==
    LET ends == {i \in 4..Len(bytes) : SubSeq(bytes, i - 3, i) = CRLF \o CRLF}
    IN  IF ends = {} THEN 0
        ELSE CHOOSE i \in ends : \A j \in ends : i <= j

\* the body lengths a response declares, as HTTP reads it: the value of
\* every header line of the head whose name is Content-Length in any
\* letter case
DeclaredLengths(bytes) ==
    LET lines == Split(SubSeq(bytes, 1, HeadLen(bytes)), LF)
        isLength(j) ==
            /\ Len(SplitN2(lines[j], COLON)) = 2
            /\ EqualFold(TrimSpace(SplitN2(lines[j], COLON)[1]),
                         KeyContentLength)
    IN  { Atoi(TrimSpace(SplitN2(lines[j], COLON)[2])) :
              j \in { k \in 2..Len(lines) : isLength(k) } }

\* C13: in the plaintext path of the proxy package, for an origin response
\* whose head declares a Content-Length N > 0 and which supplies at least N
\* body bytes, what is written to the client is exactly the head and the
\* first N body bytes, as the origin sent them.
C13_ResponseForwardedVerbatim ==
    [][(impl = "proxy" /\ pc = "http_forward_response" /\ pc' # pc) =>
          \A n \in DeclaredLengths(osend) :
              (n > 0 /\ Len(osend) >= HeadLen(osend) + n) =>
                  \E ok \in BOOLEAN :
                      cwrites' =
                          Append(cwrites,
                                 [msg |-> MsgRaw(SubSeq(osend, 1,
                                                        HeadLen(osend) + n)),
                                  ok |-> ok])]_vars

\* C14: header names are compared without regard to letter case: a request
\* header named Host in any letter case sets the request's host, and a
\* response header named Content-Length in any letter case has its N body
\* bytes read and forwarded.
C14_HeaderNamesFoldCase ==
    impl = "proxy" =>
        /\ pc = "http_check" => \A h \in HeaderHosts(raw) : host = h
        /\ \A i \in 1..Len(cwrites) :
              cwrites[i].msg.kind = "raw" =>
                  \A n \in DeclaredLengths(osend) :
                      n > 0 =>
                          Len(cwrites[i].msg.bytes) = HeadLen(osend) + n

\* the lookup of h fails: the file cannot be opened, or reading it fails
\* before a line that matches h was read
LookupFails(h, file) == ~file.ok \/ (file.scanErr /\ ~Listed(h, file))

\* C15: the blocklist check is fail-open: when the lookup fails no 403 is
\* written and the flow, plaintext or CONNECT, goes on toward the origin as
\* for an unlisted host.
C15_FailOpen ==
    [][(impl = "proxy" /\ pc \in {"http_check", "https_check"}
          /\ LookupFails(host, blocked) /\ pc' # pc) =>
          /\ cwrites' = cwrites
          /\ pc' = IF pc = "http_check" THEN "http_dial" ELSE "mitm_ack"]_vars

\* a listed-looking host went through to its origin while the file was
\* unreadable
C15_Witness ==
    /\ impl = "proxy" /\ ~blocked.ok /\ host = HostAds
    /\ looked /\ dial = "ok" /\ ~Wrote("403")

\* C16: with a readable blocklist file, checkAndBlockHost reports the host
\* blocked if and only if some line of the file, trimmed and not empty,
\* equals the whole host up to letter case; it reports blocked exactly when
\* it issued the 403.
C16_BlockedIffListed ==
    [][(impl = "proxy" /\ pc \in {"http_check", "https_check"}
          /\ blocked.ok /\ ~blocked.scanErr /\ pc' # pc) =>
          /\ Listed(host, blocked) <=> pc' \in {"http_return", "https_return"}
          /\ Listed(host, blocked) <=>
                \E ok \in BOOLEAN :
                    cwrites' = Append(cwrites, [msg |-> Msg403(host), ok |-> ok])
          /\ ~Listed(host, blocked) => cwrites' = cwrites]_vars

\* a host spelled in another letter case than its padded line was blocked
C16_Witness ==
    /\ impl = "proxy" /\ blocked.ok /\ ~blocked.scanErr
    /\ Len(blocked.lines) > 1
    /\ host # HostAds /\ Listed(host, blocked)
    /\ looked /\ Wrote403For(host) /\ dial = "none"

\* where the first bytes of a stream send the connection
Route(stream) ==
    IF Len(stream) < 7 THEN "hc_return"
    ELSE IF SubSeq(stream, 1, 7) = <<"C", "O", "N", "N", "E", "C", "T">>
         THEN "handleHTTPS"
         ELSE "handleHTTP"

\* C17: the dispatcher sends a connection to the CONNECT handler if and
\* only if the first 7 bytes of its stream are CONNECT, otherwise to the
\* plaintext handler; the peek consumes nothing; when 7 bytes cannot be
\* peeked no handler runs, nothing is written to the client and no origin
\* socket is opened.
C17_DispatchOnPeek ==
    [][/\ pc = "handleConnection" =>
              /\ cwrites = <<>> /\ dial = "none"
              /\ pc' # pc => (cin' = cin /\ pc' = Route(cin))
       /\ pc = "hc_return" =>
              (cwrites' = cwrites /\ dial' = dial /\ pc' \in {pc, "done"})]_vars

\* a connection whose stream was too short to peek was closed untouched
C17_Witness ==
    /\ pc = "done" /\ Len(cin) \in 1..6
    /\ cwrites = <<>> /\ dial = "none" /\ ~looked /\ ccloses = 1

\* a step of the connection task that reads from or writes to the client
\* socket: the peek, a parse, a write, the TLS handshake, a tunnel copy
ClientIO ==
    /\ pc \notin {"idle", "done"}
    /\ \/ pc = "handleConnection" /\ pc' # pc
       \/ cin' # cin
       \/ cwrites' # cwrites
       \/ hs' # hs
       \/ delivered' # delivered
       \/ cflight # <<>> /\ cflight' = <<>>

\* C18: the deadline is armed on every accepted client connection before
\* the first read from or write to its socket: no client I/O happens on a
\* socket with no deadline armed.
C18_DeadlineBeforeClientIO == [][ClientIO => cdeadline']_vars

\* a connection went through the peek, the 200, the handshake and a tunnel
\* copy, all under the deadline
C18_Witness ==
    /\ cdeadline /\ WroteOk("200") /\ hs = "ok" /\ delivered # <<>>
    /\ swrites # <<>>

\* C19: in the proxy package's plaintext forwarder a deadline is armed on
\* the origin connection, once it is open, before the request is written
\* to it or the response is read from it.
C19_OriginDeadlineBeforeForward ==
    [][(/\ impl = "proxy"
        /\ pc \in {"http_forward_request", "http_forward_response"}
        /\ pc' # pc) => sdeadline]_vars

\* what is left of a CONNECT authority when its ":port" suffix is removed
StripPort(authority) ==
    IF ContainsByte(authority, COLON)
    THEN LET last == CHOOSE i \in 1..Len(authority) :
                        /\ authority[i] = COLON
                        /\ \A j \in (i + 1)..Len(authority) : authority[j] # COLON
         IN  SubSeq(authority, 1, last - 1)
    ELSE authority

\* the certificate names the clean domain of the authority: CommonName
\* clean, DNS names clean and "*." clean
NamesCleanDomain(cert, authority) ==
    LET clean == StripPort(authority)
    IN  /\ cert.CommonName = clean
        /\ Len(cert.DNSNames) = 2
        /\ {cert.DNSNames[i] : i \in 1..2} = {clean, <<"*", ".">> \o clean}

\* C20: every leaf generateCertificate returns for a CONNECT domain is
\* issued under the Root CA the flow loaded, has CommonName clean and the
\* DNS names clean and "*." clean, where clean is the domain (or the
\* host:port authority) without its ":port" suffix; a flow that reaches
\* the mint stage mints one leaf, with a key no earlier flow had.
C20_LeafUnderRootCAPerFlow ==
    [][(pc = "mitm_mint" /\ pc' = "mitm_handshake") =>
          /\ rootCA \in RootCAs
          /\ leaf'.Issuer = rootCA.Leaf
          /\ leaf'.SignedBy = rootCA.PrivateKey
          /\ ~leaf'.IsCA
          /\ NamesCleanDomain(leaf', host)
          /\ NamesCleanDomain(generateCertificate(target, rootCA, 0), target)
          /\ StripPort(target) = host
          /\ leaf = NoCert /\ mints = 0 /\ mints' = 1
          /\ leaf'.PrivateKey > keys /\ keys' = leaf'.PrivateKey]_vars

\* the second CONNECT flow of the process completed its handshake with a
\* leaf of its own, issued under the Root CA it loaded, for a target that
\* carried a port
C20_Witness ==
    /\ hs = "ok" /\ mints = 1 /\ keys = 2 /\ leaf.PrivateKey = 2
    /\ leaf.Issuer = rootCA.Leaf /\ rootCA \in RootCAs
    /\ host # <<>> /\ target # host /\ leaf.CommonName = host

\* the stream holds a blank line: it starts with CRLF or holds LF CRLF
HasBlankLine(stream) ==
    \/ Len(stream) >= 2 /\ SubSeq(stream, 1, 2) = CRLF
    \/ \E i \in 1..(Len(stream) - 2) : SubSeq(stream, i, i + 2) = <<LF>> \o CRLF

\* the spaces of the first line of the stream, spaces around it not counted
FirstLineSpaces(stream) ==
    LET first == TrimSpace(BeforeCRLF(stream))
    IN  Cardinality({i \in 1..Len(first) : first[i] = SP})

\* a CONNECT request the client ends before the blank line, or one whose
\* first line has fewer than three tokens
BadConnect(stream, end) ==
    \/ ~HasBlankLine(stream) /\ end = "eof"
    \/ HasBlankLine(stream) /\ FirstLineSpaces(stream) < 2

\* C21: a CONNECT request whose first line has fewer than three tokens, or
\* whose header block hits EOF before the blank line, ends the flow: from
\* the read of the request the task only returns, the client connection
\* ends closed, no byte is written to the client, the blocklist is not
\* looked up and no origin socket is opened.
C21_BadConnectEndsFlow ==
    [][/\ (pc = "handleHTTPS" /\ BadConnect(cin, cend) /\ pc' # pc) =>
             /\ pc' \in {"https_return", "hc_return"}
             /\ cwrites' = <<>> /\ ~looked' /\ dial' = "none"
             /\ sstate' = "none" /\ target' = <<>>
       /\ (pc \in {"https_return", "hc_return"} /\ target = <<>> /\ pc' # pc) =>
             /\ pc' \in {"hc_return", "done"}
             /\ cstate' = "closed"
             /\ cwrites' = cwrites /\ looked' = looked /\ dial' = dial
             /\ sstate' = sstate]_vars

\* a CONNECT flow whose request was read to the end of the stream and
\* refused is over: the client is closed and nothing else happened
C21_Witness ==
    /\ pc = "done" /\ cin = <<>> /\ cend = "eof" /\ target = <<>>
    /\ cstate = "closed" /\ cwrites = <<>> /\ ~looked /\ dial = "none"
    /\ sstate = "none" /\ impl = "proxy" /\ ccloses = 2

\* a request that ends before the end of its first line, or whose first
\* line has fewer than three tokens
BadRequestLine(stream, end) ==
    \/ ~ContainsByte(stream, LF) /\ end = "eof"
    \/ ContainsByte(stream, LF) /\ FirstLineSpaces(stream) < 2

\* a response whose status line has fewer than two tokens, or which
\* declares more body bytes than it supplies
BadResponse(stream) ==
    \/ ContainsByte(stream, LF) /\ FirstLineSpaces(stream) < 1
    \/ \E n \in DeclaredLengths(stream) :
           n > 0 /\ Len(stream) < HeadLen(stream) + n

\* C22: in the plaintext path a parse failure closes the flow without
\* partial output: after a bad request line no origin socket is opened and
\* nothing is written to the client; after a bad status line or a declared
\* body that cannot be read in full nothing of the response is written to
\* the client and both sockets are closed.
C22_ParseFailureNoPartialOutput ==
    [][/\ (pc = "handleHTTP" /\ BadRequestLine(cin, cend) /\ pc' # pc) =>
             /\ pc' \in {"http_return", "hc_return"}
             /\ cwrites' = <<>> /\ dial' = "none" /\ sstate' = "none"
       /\ (/\ pc \in {"http_forward_response", "main_http_forward_response"}
           /\ BadResponse(osend)
           /\ (pc' # pc \/ process' # process)) =>
             /\ cwrites' = cwrites
             /\ \/ pc' \in {"http_return", "main_http_return"}
                \/ sstate' = "closed" /\ cstate' = "closed"
       /\ (pc = "http_return" /\ pc' # pc) =>
             /\ cwrites' = cwrites /\ dial' = dial
             /\ sstate' # "open" /\ cstate' = "closed"
       /\ (pc = "main_http_return" /\ pc' # pc) =>
             /\ cwrites' = cwrites /\ sstate' = "closed"
             /\ pc' = "hc_return"
       /\ (pc = "hc_return" /\ pc' # pc) =>
             /\ cwrites' = cwrites /\ dial' = dial /\ sstate' = sstate
             /\ cstate' = "closed"]_vars

\* the stages of a CONNECT flow of the proxy package, in their order
Stages ==
    <<"handleHTTPS", "https_check", "mitm_ack", "mitm_load_ca", "mitm_mint",
      "mitm_handshake", "mitm_dial", "tunnel">>

\* what the stage at pc must have achieved for the flow to enter the next
StageDone ==
    CASE pc = "handleHTTPS"    -> target' # <<>>
      [] pc = "https_check"    -> looked' /\ cwrites' = <<>>
      [] pc = "mitm_ack"       -> WroteOk("200")'
      [] pc = "mitm_load_ca"   -> rootCA' \in RootCAs
      [] pc = "mitm_mint"      -> leaf' # NoCert
      [] pc = "mitm_handshake" -> hs' = "ok"
      [] pc = "mitm_dial"      -> dial' = "ok" /\ sstate' = "open"
      [] OTHER                 -> TRUE

\* C23: a CONNECT flow of the proxy package passes its stages in the order
\* read CONNECT, blocklist check, write 200, load CA, mint leaf, client TLS
\* handshake, origin TLS dial, pump; a stage is left for the next one only
\* when it succeeded and otherwise for the return of the flow, from which
\* no stage is entered; the origin is dialed only after the handshake
\* succeeded and the pump runs only with both TLS endpoints.
C23_StagesInOrder ==
    [][impl = "proxy" =>
         /\ \A i \in 1..Len(Stages) :
               (pc = Stages[i] /\ pc' # pc) =>
                  \/ i < Len(Stages) /\ pc' = Stages[i + 1] /\ StageDone
                  \/ i < Len(Stages) /\ pc' = "https_return" /\ ~StageDone
                  \/ pc = "mitm_dial" /\ pc' = "mitm_dial_blocked"
                         /\ dial' = "hang"
                  \/ pc = "tunnel" /\ pc' = "mitm_return"
         /\ (pc \in {"mitm_return", "https_return"} /\ pc' # pc) =>
               pc' \in {"https_return", "hc_return"}
         /\ (pc # "http_dial" /\ dial = "none" /\ dial' # "none") =>
               (pc = "mitm_dial" /\ hs = "ok")
         /\ pc' = "tunnel" => (hs' = "ok" /\ dial' = "ok")]_vars

\* a flow went through every stage: the pump runs after the lookup, the
\* 200, the leaf, the handshake and the dial
C23_Witness ==
    /\ impl = "proxy" /\ pc = "tunnel" /\ looked /\ WroteOk("200")
    /\ leaf # NoCert /\ hs = "ok" /\ dial = "ok" /\ sstate = "open"
    /\ c2s = "copy" /\ s2c = "hdr"

\* C24: the blocklist is read again on every lookup and never cached: when
\* the file changes between two requests, the later request for a host is
\* decided by the file as it is at its own lookup, whatever any earlier
\* lookup came to.
C24_LookupReadsFileAnew ==
    [][(impl = "proxy" /\ pc \in {"http_check", "https_check"} /\ pc' # pc) =>
          LET listedNow == blocked.ok /\ Listed(host, blocked)
          IN  /\ pc' \in {"http_return", "https_return"} <=> listedNow
              /\ cwrites' # cwrites <=> listedNow
              /\ EqualFold(host, HostAds) =>
                    adsLookups' =
                        Append(adsLookups,
                               IF listedNow THEN "blocked" ELSE "passed")]_vars

\* ads.t was blocked on the first connection; the file was rewritten
\* without it, and the CONNECT for ads.t on the second connection went
\* through to the origin
C24_Witness ==
    /\ impl = "proxy" /\ accepted = 2 /\ adsLookups = <<"blocked", "passed">>
    /\ blocked.ok /\ ~Listed(host, blocked) /\ EqualFold(host, HostAds)
    /\ hs = "ok" /\ dial = "ok"

\* the bytes of a sequence of segments, in order
RECURSIVE Flat(_)
Flat(segments) ==
    IF segments = <<>> THEN <<>> ELSE Head(segments) \o Flat(Tail(segments))

IsPrefix(s, t) == Len(s) <= Len(t) /\ s = SubSeq(t, 1, Len(s))

\* C25: in the origin-to-client direction of the MITM pump delivery is in
\* order and lossless: what has been written to the client is at every
\* moment a prefix of what the origin sends, and when the copy ends because
\* the origin closed, all of it has been written, with or without a blank
\* line in it.
C25_OriginToClientLossless ==
    (impl = "proxy" /\ dial = "ok" /\ hs = "ok") =>
        /\ \E data \in OriginTunnelData : IsPrefix(delivered, Flat(data))
        /\ (s2c = "done" /\ ending["s2c"] = "source") =>
              /\ osend = <<>> /\ oflight = <<>>
              /\ \E data \in OriginTunnelData : delivered = Flat(data)

\* C26: in handleHTTPS of src/main.go the origin is dialed before any
\* response is written: a failed dial has the 502 written and never a 200,
\* a successful one the 200 and never a 502, and no connection gets both.
C26_MainDialBeforeResponse ==
    [][impl = "main" =>
         /\ (pc = "main_https_dial" /\ pc' # pc) =>
               /\ cwrites = <<>>
               /\ dial' = "failed" =>
                     /\ \E ok \in BOOLEAN :
                           cwrites' = <<[msg |-> Msg502, ok |-> ok]>>
                     /\ pc' = "hc_return"
               /\ dial' = "ok" =>
                     (cwrites' = <<>> /\ pc' = "main_https_ack")
         /\ (pc = "main_https_ack" /\ pc' # pc) =>
               /\ dial = "ok"
               /\ \E ok \in BOOLEAN : cwrites' = <<[msg |-> Msg200, ok |-> ok]>>
         /\ Wrote("200")' => (dial' = "ok" /\ ~Wrote("502")')
         /\ Wrote("502")' => (dial' = "failed" /\ ~Wrote("200")')]_vars

\* a CONNECT flow of src/main.go whose dial failed is over with the 502
\* as its only write
C26_Witness ==
    /\ impl = "main" /\ pc = "done" /\ dial = "failed" /\ target # <<>>
    /\ Len(cwrites) = 1 /\ Wrote("502") /\ ~Wrote("200")

\* C27: in the CONNECT flow of the proxy package no client byte is lost
\* between the CONNECT parser and the TLS endpoint: what the client sent
\* after the blank line of the request, the bytes held by the dispatcher's
\* reader included, is consumed by the handshake and the tunnel, so once
\* the handshake has run the reader holds nothing unread.
C27_NoClientByteLeftInReader ==
    (impl = "proxy" /\ hs # "none") => cin = <<>>

====
